---------------------------- MODULE Spec2Model ----------------------------
(***************************************************************************)
(* express-route-builder: the middleware registry (addMiddleware,          *)
(* setMiddlewares, getMiddlewares), the chain builder (buildMiddlewares,   *)
(* shouldAddMiddleware), the router population (buildRouter) and the       *)
(* logging wrapper (lib/logger.js).  The library source lib/index.js is    *)
(* the code that follows the licence text in src/README.md.                *)
(***************************************************************************)
EXTENDS Integers, Sequences, FiniteSets, TLC

VARIABLES
  middlewares,  \* the module-level registry array
  call,         \* the API call that ran last, with its arguments
  ret,          \* how that call ended: a returned value or a thrown Error
  router,       \* the stack of the router object handed to buildRouter
  invocations,  \* logger: the (req, res, next) of each call of a wrapped middleware
  trace         \* logger: what the wrapper did, in order

vars == <<middlewares, call, ret, router, invocations, trace>>

(***************************************************************************)
(* Bounds of the model                                                     *)
(***************************************************************************)
MaxMiddlewares == 2   \* registry length explored
MaxBatch == 2         \* length of the array handed to setMiddlewares
MaxRoutes == 2        \* length of the routeObjects array handed to buildRouter
MaxCalls == 3         \* logger: calls of wrapped middlewares and of their continuations

(***************************************************************************)
(* JavaScript values.  Every primitive is a record of one shape, so that   *)
(* typeof, truthiness and === are computed and not assumed.                *)
(***************************************************************************)
Undefined == [t |-> "undefined", v |-> "", elems |-> <<>>]
Null == [t |-> "null", v |-> "", elems |-> <<>>]
Str(s) == [t |-> "string", v |-> s, elems |-> <<>>]
Num(s) == [t |-> "number", v |-> s, elems |-> <<>>]
Fn(id) == [t |-> "function", v |-> id, elems |-> <<>>]
Arr(e) == [t |-> "array", v |-> "", elems |-> e]
\* a middleware object literal; a field left out of the literal reads as undefined
Obj(name, generator, include) ==
  [t |-> "object", name |-> name, generator |-> generator, include |-> include]

\* typeof x: null and arrays are "object"
TypeOf(x) == IF x.t \in {"null", "array"} THEN "object" ELSE x.t

\* ToBoolean(x)
Truthy(x) ==
  CASE x.t \in {"undefined", "null"} -> FALSE
    [] x.t = "string" -> x.v # ""
    [] x.t = "number" -> x.v \notin {"0", "NaN"}
    [] OTHER -> TRUE

\* Array.isArray(x)
IsArray(x) == x.t = "array"

\* [].concat(x): the elements of an array argument, any other value as one element
Concat(x) == IF IsArray(x) THEN Arr(x.elems) ELSE Arr(<<x.v>>)

\* x.indexOf(s) >= 0 for an array x of strings (strict equality with an
\* element) or a string x (substring search; over the tokens used here no
\* token lies inside another, so a string holds s exactly when it is s)
IndexOfGE0(x, s) ==
  /\ s.t = "string"
  /\ IF IsArray(x) THEN \E i \in 1..Len(x.elems) : x.elems[i] = s.v
     ELSE x.t = "string" /\ x.v = s.v

\* x === "s"
StrictEqString(x, s) == x.t = "string" /\ x.v = s

\* String.prototype.toLowerCase on the method names used
ToLowerCase(s) ==
  CASE s = "GET" -> "get"
    [] s = "POST" -> "post"
    [] s = "Post" -> "post"
    [] OTHER -> s

\* o.hasOwnProperty(k) and o[k]: an object is a function from its own keys
\* to values, and a key it does not have reads as undefined
HasOwnProperty(o, k) == k \in DOMAIN o
Get(o, k) == IF k \in DOMAIN o THEN o[k] ELSE Undefined

\* how a call ends: a returned value, or a thrown Error whose message is the
\* concatenation of the strings of msg
Return(val) == [kind |-> "return", error |-> <<>>, val |-> val]
Throw(msg) == [kind |-> "throw", error |-> msg, val |-> Undefined]

(***************************************************************************)
(* Registry                                                                *)
(***************************************************************************)
\* mutant of Normalized: the include policy is pushed as it was written
Normalized_AsWritten(middlewareObject) == middlewareObject

\* the middleware object as pushed: include replaced by [].concat(include)
Normalized(middlewareObject) ==
  IF Truthy(Get(middlewareObject, "include"))
  THEN [middlewareObject EXCEPT !.include = Concat(middlewareObject.include)]
  ELSE middlewareObject

\* mutant of addMiddleware: the generator is not checked
addMiddleware_NoGeneratorCheck(mws, middlewareObject) ==
  IF ~Truthy(middlewareObject) \/ TypeOf(middlewareObject) # "object"
  THEN [out |-> Throw(<<"addMiddleware: middlewareObject must be an object">>), mws |-> mws]
  ELSE IF ~Truthy(Get(middlewareObject, "name"))
          \/ TypeOf(Get(middlewareObject, "name")) # "string"
  THEN [out |-> Throw(<<"addMiddleware: name required">>), mws |-> mws]
  ELSE [out |-> Return(Undefined), mws |-> Append(mws, middlewareObject)]

\* addMiddleware on registry mws: the outcome and the registry afterwards
addMiddleware(mws, middlewareObject) ==
  IF ~Truthy(middlewareObject) \/ TypeOf(middlewareObject) # "object"
  THEN [out |-> Throw(<<"addMiddleware: middlewareObject must be an object">>), mws |-> mws]
  ELSE IF ~Truthy(Get(middlewareObject, "name"))
          \/ TypeOf(Get(middlewareObject, "name")) # "string"
  THEN [out |-> Throw(<<"addMiddleware: name required">>), mws |-> mws]
  ELSE IF ~Truthy(Get(middlewareObject, "generator"))
          \/ TypeOf(Get(middlewareObject, "generator")) # "function"
  THEN [out |-> Throw(<<"addMiddleware: middlewareObject.generator must be a function">>),
        mws |-> mws]
  ELSE [out |-> Return(Undefined), mws |-> Append(mws, Normalized(middlewareObject))]

\* getMiddlewares
getMiddlewares(mws) == Return(mws)

\* the forEach of setMiddlewares from element i on: the first throw ends it
RECURSIVE ForEachAdd(_, _, _)
ForEachAdd(mws, middlewareObjects, i) ==
  IF i > Len(middlewareObjects) THEN [out |-> Return(Undefined), mws |-> mws]
  ELSE LET r == addMiddleware(mws, middlewareObjects[i])
       IN IF r.out.kind = "throw" THEN r
          ELSE ForEachAdd(r.mws, middlewareObjects, i + 1)

\* mutant of setMiddlewares: the array replaces what was registered
setMiddlewares_Replace(mws, middlewareObjects) ==
  IF ~IsArray(middlewareObjects)
  THEN [out |-> Throw(<<"setMiddleware: middlewareObjects should be an Array">>), mws |-> mws]
  ELSE ForEachAdd(<<>>, middlewareObjects.elems, 1)

\* setMiddlewares
setMiddlewares(mws, middlewareObjects) ==
  IF ~IsArray(middlewareObjects)
  THEN [out |-> Throw(<<"setMiddleware: middlewareObjects should be an Array">>), mws |-> mws]
  ELSE ForEachAdd(mws, middlewareObjects.elems, 1)

(***************************************************************************)
(* Chain builder                                                           *)
(***************************************************************************)
\* generator(value): the middleware the generator returns for that value
Generate(generator, value) == [t |-> "function", generator |-> generator.v, value |-> value]

\* lib/logger.js: the middleware wrapped under its label
logMiddlware(label, middleware) ==
  [t |-> "function", label |-> label, middleware |-> middleware]

\* mutant of shouldAddMiddleware: "all" is not looked for
shouldAddMiddleware_MethodOnly(routeObject, middlewareObject) ==
  /\ Truthy(middlewareObject.include)
  /\ IndexOfGE0(middlewareObject.include, Get(routeObject, "method"))

\* shouldAddMiddleware
shouldAddMiddleware(routeObject, middlewareObject) ==
  /\ Truthy(middlewareObject.include)
  /\ \/ IndexOfGE0(middlewareObject.include, Str("all"))
     \/ IndexOfGE0(middlewareObject.include, Get(routeObject, "method"))

\* mutant of Push: x goes right behind the first element
Push_BehindFirst(routeMiddlewares, x) ==
  IF routeMiddlewares = <<>> THEN <<x>>
  ELSE <<routeMiddlewares[1], x>> \o Tail(routeMiddlewares)

\* routeMiddlewares.push(x)
Push(routeMiddlewares, x) == Append(routeMiddlewares, x)

\* the middlewares.forEach of buildMiddlewares from registry entry i on
RECURSIVE ForEachMiddleware(_, _, _, _)
ForEachMiddleware(mws, routeObject, i, routeMiddlewares) ==
  IF i > Len(mws) THEN Return(routeMiddlewares)
  ELSE LET middlewareObject == mws[i]
           name == middlewareObject.name.v
       IN IF StrictEqString(middlewareObject.include, "required")
             /\ ~HasOwnProperty(routeObject, name)
          THEN Throw(<<"", name, " is a required configuration">>)
          ELSE IF shouldAddMiddleware(routeObject, middlewareObject)
                  \/ HasOwnProperty(routeObject, name)
          THEN ForEachMiddleware(mws, routeObject, i + 1,
                 Push(routeMiddlewares,
                      logMiddlware(name, Generate(middlewareObject.generator,
                                                  Get(routeObject, name)))))
          ELSE ForEachMiddleware(mws, routeObject, i + 1, routeMiddlewares)

\* mutant of buildMiddlewares: the path is not checked
buildMiddlewares_NoPathCheck(mws, routeObject) ==
  IF ~Truthy(Get(routeObject, "method"))
  THEN Throw(<<"route object requires a 'methods' attribute">>)
  ELSE ForEachMiddleware(mws, routeObject, 1, Push(<<>>, Get(routeObject, "path")))

\* buildMiddlewares against registry mws
buildMiddlewares(mws, routeObject) ==
  IF ~Truthy(Get(routeObject, "path"))
  THEN Throw(<<"route object requires a 'path' attribute">>)
  ELSE IF ~Truthy(Get(routeObject, "method"))
  THEN Throw(<<"route object requires a 'methods' attribute">>)
  ELSE ForEachMiddleware(mws, routeObject, 1, Push(<<>>, Get(routeObject, "path")))

(***************************************************************************)
(* Router population                                                       *)
(***************************************************************************)
\* the registration entry points of the router object (express.Router)
RouterMethods == {"get", "post"}

\* mutant of Register: the entry goes to the front of the stack
Register_AtFront(stack, method, routeMiddlewares) ==
  <<[method |-> method, args |-> routeMiddlewares]>> \o stack

\* router[method].apply(router, routeMiddlewares): one more entry on the
\* router's stack, holding the entry point and the arguments it was given
Register(stack, method, routeMiddlewares) ==
  Append(stack, [method |-> method, args |-> routeMiddlewares])

\* the routeObjects.forEach of buildRouter from route i on
RECURSIVE ForEachRoute(_, _, _, _)
ForEachRoute(mws, stack, routeObjects, i) ==
  IF i > Len(routeObjects) THEN [out |-> Return(stack), router |-> stack]
  ELSE LET routeObject == routeObjects[i]
           built == buildMiddlewares(mws, routeObject)
           method == ToLowerCase(Get(routeObject, "method").v)
       IN IF ~Truthy(Get(routeObject, "method"))
          THEN [out |-> Throw(<<"routeObject requires a 'method' object">>),
                router |-> stack]
          ELSE IF built.kind = "throw"
          THEN [out |-> built, router |-> stack]
          ELSE IF method \notin RouterMethods
          THEN [out |-> Throw(<<"TypeError: router.", method, " is not a function">>),
                router |-> stack]
          ELSE ForEachRoute(mws, Register(stack, method, built.val), routeObjects, i + 1)

\* buildRouter against registry mws: the outcome and the router's stack afterwards
buildRouter(mws, stack, routeObjects) == ForEachRoute(mws, stack, routeObjects, 1)

(***************************************************************************)
(* Inputs                                                                  *)
(***************************************************************************)
\* middleware names (the route object keys they read)
Names == {"pagination", "authorization"}

\* the include policies a middleware object is written with: none, one
\* token, or an array of tokens
Includes ==
  {Undefined, Str("get"), Str("optional"), Str("required"), Str("all"),
   Arr(<<"required", "post">>)}

\* the generator function of the middleware of that name
GeneratorOf(name) == Fn(name)

\* middleware objects addMiddleware accepts
ValidObjects == {Obj(Str(n), GeneratorOf(n), inc) : n \in Names, inc \in Includes}

\* arguments addMiddleware rejects: nothing, null, a string, and objects
\* without a usable name or generator
InvalidObjects ==
  {Undefined, Null, Str("badger"),
   Obj(Undefined, Undefined, Undefined),
   Obj(Str(""), GeneratorOf("pagination"), Str("get")),
   Obj(Num("42"), GeneratorOf("pagination"), Str("get")),
   Obj(Str("badger"), Undefined, Undefined),
   Obj(Str("badger"), Str("generator"), Str("all"))}

\* the middleware objects of test/index.js: pagination on every get route,
\* authorization where the route asks for it
MiddlewareObjects ==
  {Obj(Str("pagination"), GeneratorOf("pagination"), Str("get")),
   Obj(Str("authorization"), GeneratorOf("authorization"), Str("optional"))}

\* the elements of the arrays handed to setMiddlewares: those two and an
\* object without generator
BatchObjects == MiddlewareObjects \cup {Obj(Str("badger"), Undefined, Undefined)}

\* sequences over S of length at most n
SeqsUpTo(S, n) == UNION {[1..k -> S] : k \in 0..n}

\* what setMiddlewares is called with: arrays, and two non-arrays
BatchArguments ==
  {Arr(e) : e \in SeqsUpTo(BatchObjects, MaxBatch)}
    \cup {Undefined, Obj(Str("pagination"), GeneratorOf("pagination"), Str("get"))}

\* the value a route object gives under a middleware's name
ConfigOf(name) == IF name = "authorization" THEN Str("bearer") ELSE Str("ten")

\* route objects: method and path present or not, and own fields for any
\* subset of the middleware names
RouteMethods == {Str("get"), Str("GET"), Str("post")}
RoutePaths == {Str("/fish")}
RouteObject(method, path, fields) ==
  [k \in {"method" : x \in method} \cup {"path" : x \in path} \cup fields |->
     IF k = "method" THEN CHOOSE x \in method : TRUE
     ELSE IF k = "path" THEN CHOOSE x \in path : TRUE
     ELSE ConfigOf(k)]
RouteObjects ==
  {RouteObject(m, p, f) :
     m \in {{}} \cup {{x} : x \in RouteMethods},
     p \in {{}} \cup {{x} : x \in RoutePaths},
     f \in SUBSET Names}

\* the route objects handed to buildRouter: GET and POST /badgers as in
\* test/index.js, the GET route with its method in capitals, and routes
\* without method or path
RouterRouteObjects ==
  {RouteObject({Str("get")}, {Str("/badgers")}, {"authorization"}),
   RouteObject({Str("post")}, {Str("/badgers")}, {"authorization"}),
   RouteObject({Str("GET")}, {Str("/badgers")}, {"authorization"}),
   RouteObject({}, {Str("/badgers")}, {"authorization"}),
   RouteObject({Str("get")}, {}, {"authorization"})}

\* the router handed to buildRouter: a new one, or one holding a route already
Routers == {<<>>, <<[method |-> "get", args |-> <<Str("/health")>>]>>}

(***************************************************************************)
(* Calls                                                                   *)
(***************************************************************************)
Init ==
  /\ middlewares = <<>>
  /\ call = [op |-> "none"]
  /\ ret = Return(Undefined)
  /\ router = <<>>
  /\ invocations = <<>>
  /\ trace = <<>>

AddMiddleware(middlewareObject) ==
  LET r == addMiddleware(middlewares, middlewareObject)
  IN /\ Len(r.mws) <= MaxMiddlewares
     /\ middlewares' = r.mws
     /\ call' = [op |-> "addMiddleware", middlewareObject |-> middlewareObject]
     /\ ret' = r.out
     /\ UNCHANGED <<router, invocations, trace>>

SetMiddlewares(middlewareObjects) ==
  LET r == setMiddlewares(middlewares, middlewareObjects)
  IN /\ Len(r.mws) <= MaxMiddlewares
     /\ middlewares' = r.mws
     /\ call' = [op |-> "setMiddlewares", middlewareObjects |-> middlewareObjects]
     /\ ret' = r.out
     /\ UNCHANGED <<router, invocations, trace>>

GetMiddlewares ==
  /\ call' = [op |-> "getMiddlewares"]
  /\ ret' = getMiddlewares(middlewares)
  /\ UNCHANGED <<middlewares, router, invocations, trace>>

BuildMiddlewares(routeObject) ==
  /\ call' = [op |-> "buildMiddlewares", routeObject |-> routeObject]
  /\ ret' = buildMiddlewares(middlewares, routeObject)
  /\ UNCHANGED <<middlewares, router, invocations, trace>>

NextRegistry ==
  \/ \E m \in ValidObjects \cup InvalidObjects : AddMiddleware(m)
  \/ \E ms \in BatchArguments : SetMiddlewares(ms)
  \/ GetMiddlewares

SpecRegistry == Init /\ [][NextRegistry]_vars

NextChain ==
  \/ \E m \in ValidObjects : AddMiddleware(m)
  \/ \E r \in RouteObjects : BuildMiddlewares(r)

SpecChain == Init /\ [][NextChain]_vars

BuildRouter(stack, routeObjects) ==
  LET r == buildRouter(middlewares, stack, routeObjects)
  IN /\ call' = [op |-> "buildRouter", router |-> stack, routeObjects |-> routeObjects]
     /\ ret' = r.out
     /\ router' = r.router
     /\ UNCHANGED <<middlewares, invocations, trace>>

\* the registry is populated first, then routers are built from it
NextRouter ==
  \/ \E m \in MiddlewareObjects : call.op # "buildRouter" /\ AddMiddleware(m)
  \/ \E stack \in Routers, rs \in SeqsUpTo(RouterRouteObjects, MaxRoutes) :
       BuildRouter(stack, rs)

SpecRouter == Init /\ [][NextRouter]_vars

(***************************************************************************)
(* lib/logger.js: a wrapped middleware at work                             *)
(***************************************************************************)
\* the events of the trace.  k is the call of the wrapped middleware the
\* event belongs to.
\*   debugLog    debug("middleware:" + label) is given msg
\*   middleware  the wrapped middleware fn is called with (req, res, newNext of k)
\*   newNext     the middleware calls the continuation it was given, with err
\*   next        the continuation next given to the wrapper is called with err
Event(e, k, label, fn, req, res, next, msg, err) ==
  [e |-> e, k |-> k, label |-> label, fn |-> fn, req |-> req, res |-> res,
   next |-> next, msg |-> msg, err |-> err]
DebugLog(k, label, msg) ==
  Event("debugLog", k, label, Generate(Fn(""), Undefined), "", "", "", msg, Undefined)
MiddlewareCall(k, fn, req, res) ==
  Event("middleware", k, "", fn, req, res, "", Undefined, Undefined)
NewNextCall(k, err) ==
  Event("newNext", k, "", Generate(Fn(""), Undefined), "", "", "", Undefined, err)
NextCall(k, next, err) ==
  Event("next", k, "", Generate(Fn(""), Undefined), "", "", next, Undefined, err)

\* the function logMiddlware returns, called as call k with (req, res, next):
\* what it does up to and including its call of the middleware
wrapped(handler, k, req, res) ==
  <<DebugLog(k, handler.label, Str("started")),
    MiddlewareCall(k, handler.middleware, req, res)>>

\* mutant of newNext: next is called without the error
newNext_DropsErr(invocation, k, err) ==
  <<DebugLog(k, invocation.handler.label, IF Truthy(err) THEN err ELSE Str("complete")),
    NextCall(k, invocation.next, Undefined)>>

\* newNext of call k, called with err
newNext(invocation, k, err) ==
  <<DebugLog(k, invocation.handler.label, IF Truthy(err) THEN err ELSE Str("complete")),
    NextCall(k, invocation.next, err)>>

\* the wrapped middlewares buildMiddlewares puts into chains
Handlers ==
  {logMiddlware(n, Generate(GeneratorOf(n), ConfigOf(n))) : n \in Names}
Requests == {"req1", "req2"}
Responses == {"res"}
Continuations == {"next1", "next2"}
\* what a middleware hands to its continuation: nothing, null, an empty
\* string, or an error
Errs == {Undefined, Null, Str(""), Str("boom")}
\* how the call of the middleware ends
Returned == {Return(Undefined), Return(Str("promise")), Throw(<<"boom">>)}

\* the router (or a test) calls a wrapped middleware
Invoke(handler, req, res, next, returned) ==
  /\ Len(invocations) + Cardinality({p \in DOMAIN trace : trace[p].e = "newNext"})
       < MaxCalls
  /\ invocations' = Append(invocations, [handler |-> handler, req |-> req,
                                          res |-> res, next |-> next])
  /\ trace' = trace \o wrapped(handler, Len(invocations) + 1, req, res)
  /\ call' = [op |-> "wrapped", handler |-> handler]
  /\ ret' = returned
  /\ UNCHANGED <<middlewares, router>>

\* the middleware of call k calls the continuation it was given
Continue(k, err) ==
  /\ Len(invocations) + Cardinality({p \in DOMAIN trace : trace[p].e = "newNext"})
       < MaxCalls
  /\ trace' = trace \o <<NewNextCall(k, err)>> \o newNext(invocations[k], k, err)
  /\ UNCHANGED <<middlewares, call, ret, router, invocations>>

NextLogger ==
  \/ \E h \in Handlers, req \in Requests, res \in Responses,
        next \in Continuations, returned \in Returned :
       Invoke(h, req, res, next, returned)
  \/ \E k \in DOMAIN invocations, err \in Errs : Continue(k, err)

SpecLogger == Init /\ [][NextLogger]_vars

(***************************************************************************)
(* Every call in any order.  The properties below are checked under the    *)
(* specifications above, each of which holds the calls a property is about.*)
(***************************************************************************)
Next ==
  \/ \E m \in ValidObjects \cup InvalidObjects : AddMiddleware(m)
  \/ \E ms \in BatchArguments : SetMiddlewares(ms)
  \/ GetMiddlewares
  \/ \E r \in RouteObjects : BuildMiddlewares(r)
  \/ \E stack \in Routers, rs \in SeqsUpTo(RouterRouteObjects, MaxRoutes) :
       BuildRouter(stack, rs)
  \/ \E h \in Handlers, req \in Requests, res \in Responses,
        next \in Continuations, returned \in Returned :
       Invoke(h, req, res, next, returned)
  \/ \E k \in DOMAIN invocations, err \in Errs : Continue(k, err)

Spec == Init /\ [][Next]_vars

(***************************************************************************)
(* Properties                                                              *)
(***************************************************************************)
\* the tokens of a registered middleware's include policy
PolicyTokens(d) ==
  IF d.include.t = "array" THEN {d.include.elems[i] : i \in 1..Len(d.include.elems)}
  ELSE IF d.include.t = "string" THEN {d.include.v}
  ELSE {}

\* the route object has a path and a method
HasPathAndMethod(routeObject) ==
  /\ "path" \in DOMAIN routeObject /\ routeObject["path"].t = "string"
  /\ routeObject["path"].v # ""
  /\ "method" \in DOMAIN routeObject /\ routeObject["method"].t = "string"
  /\ routeObject["method"].v # ""

\* d takes part in the chain of the route: its policy holds "all" or the
\* route's method, or the route has a field of d's name
InChain(d, routeObject) ==
  \/ "all" \in PolicyTokens(d)
  \/ routeObject["method"].v \in PolicyTokens(d)
  \/ d.name.v \in DOMAIN routeObject

\* the handler d contributes: its generator applied to the route's field of
\* d's name, under the logging wrapper labelled with d's name
HandlerOf(d, routeObject) ==
  [t |-> "function", label |-> d.name.v,
   middleware |-> [t |-> "function", generator |-> d.generator.v,
                   value |-> IF d.name.v \in DOMAIN routeObject
                             THEN routeObject[d.name.v] ELSE Undefined]]

\* the registry entries in the chain of the route, in registry order
RECURSIVE HandlersFrom(_, _, _)
HandlersFrom(reg, routeObject, i) ==
  IF i > Len(reg) THEN <<>>
  ELSE (IF InChain(reg[i], routeObject) THEN <<HandlerOf(reg[i], routeObject)>> ELSE <<>>)
         \o HandlersFrom(reg, routeObject, i + 1)

C2_MissingRequiredThrows ==
  (/\ call.op = "buildMiddlewares"
   /\ HasPathAndMethod(call.routeObject)
   /\ \E i \in DOMAIN middlewares :
        /\ "required" \in PolicyTokens(middlewares[i])
        /\ middlewares[i].name.v \notin DOMAIN call.routeObject)
  => /\ ret.kind = "throw"
     /\ \E i \in DOMAIN middlewares :
          /\ "required" \in PolicyTokens(middlewares[i])
          /\ middlewares[i].name.v \notin DOMAIN call.routeObject
          /\ ret.error = <<"", middlewares[i].name.v, " is a required configuration">>

\* s back to front
Reverse(s) == [i \in 1..Len(s) |-> s[Len(s) + 1 - i]]

\* the places of handler h among the handlers of a chain (the path is element 1)
PlacesOf(h, chain) == {p \in 2..Len(chain) : chain[p] = h}

\* C4: the handlers of a chain stand in registration order: of two registry
\* entries in the chain, the one registered first has its handler first,
\* and never the other way round; the chain built from the same entries
\* registered in the reverse order holds the handlers in the reverse order
C4_ChainInRegistrationOrder ==
  (call.op = "buildMiddlewares" /\ ret.kind = "return") =>
    LET routeObject == call.routeObject
        chain == ret.val
        swapped == buildMiddlewares(Reverse(middlewares), routeObject)
    IN /\ \A i, j \in DOMAIN middlewares :
            (/\ i < j
             /\ InChain(middlewares[i], routeObject)
             /\ InChain(middlewares[j], routeObject)) =>
              LET a == HandlerOf(middlewares[i], routeObject)
                  b == HandlerOf(middlewares[j], routeObject)
              IN /\ \E p \in PlacesOf(a, chain), q \in PlacesOf(b, chain) : p < q
                 /\ a # b => \A p \in PlacesOf(a, chain), q \in PlacesOf(b, chain) :
                               (p < q \/ \E k \in DOMAIN middlewares :
                                           /\ k \notin {i, j}
                                           /\ HandlerOf(middlewares[k], routeObject) \in {a, b})
       /\ swapped.kind = "return"
       /\ Tail(swapped.val) = Reverse(Tail(chain))

\* a chain that holds the handlers of two different registry entries
C4_Witness ==
  /\ call.op = "buildMiddlewares"
  /\ ret.kind = "return"
  /\ Len(ret.val) = 3
  /\ ret.val[2] # ret.val[3]
  /\ ret.val[2] = HandlerOf(middlewares[1], call.routeObject)
  /\ ret.val[3] = HandlerOf(middlewares[2], call.routeObject)

\* a valid middleware object: a non-null object with a non-empty string
\* name and a function generator
ValidDescriptor(d) ==
  /\ d.t = "object"
  /\ d.name.t = "string" /\ d.name.v # ""
  /\ d.generator.t = "function"

\* d with its include policy in sequence form: a single token as a
\* one-element sequence, a sequence with the same tokens
InSequenceForm(d) ==
  [t |-> "object", name |-> d.name, generator |-> d.generator,
   include |-> IF d.include.t = "string" THEN Arr(<<d.include.v>>)
               ELSE IF d.include.t = "array" THEN Arr(d.include.elems)
               ELSE d.include]

\* C5: addMiddleware of a valid middleware object makes the registry one
\* longer, with the object, its policy in sequence form, as the last entry
\* and every earlier entry where it was
C5_AddAppendsOne ==
  [][(call'.op = "addMiddleware" /\ ValidDescriptor(call'.middlewareObject)) =>
       /\ ret'.kind = "return"
       /\ Len(middlewares') = Len(middlewares) + 1
       /\ \A i \in DOMAIN middlewares : middlewares'[i] = middlewares[i]
       /\ middlewares'[Len(middlewares')] = InSequenceForm(call'.middlewareObject)
       /\ middlewares'[Len(middlewares')].include.t \in {"array", "undefined"}]_vars

\* a middleware object written with a single token was added to a
\* registry that held an entry
C5_Witness ==
  /\ call.op = "addMiddleware"
  /\ ret.kind = "return"
  /\ Len(middlewares) = 2
  /\ call.middlewareObject.include = Str("get")
  /\ middlewares[2].include = Arr(<<"get">>)

\* C6: addMiddleware of anything but a valid middleware object throws and
\* leaves the registry as it was
C6_InvalidAddThrows ==
  [][(call'.op = "addMiddleware" /\ ~ValidDescriptor(call'.middlewareObject)) =>
       /\ ret'.kind = "throw"
       /\ middlewares' = middlewares]_vars

\* an object with a name and no generator was refused by a registry that
\* held an entry
C6_Witness ==
  /\ call.op = "addMiddleware"
  /\ call.middlewareObject = Obj(Str("badger"), Undefined, Undefined)
  /\ ret.kind = "throw"
  /\ Len(middlewares) = 1

\* the first place of an invalid element in s, Len(s) + 1 when there is none
FirstInvalid(s) ==
  IF \A i \in DOMAIN s : ValidDescriptor(s[i]) THEN Len(s) + 1
  ELSE CHOOSE k \in DOMAIN s :
         /\ ~ValidDescriptor(s[k])
         /\ \A i \in 1..(k - 1) : ValidDescriptor(s[i])

\* C9: setMiddlewares throws and leaves the registry alone when its
\* argument is no array; else it appends the elements in order to what is
\* registered, up to the first invalid one, where it throws
C9_SetAppendsUpToFirstInvalid ==
  [][call'.op = "setMiddlewares" =>
       LET arg == call'.middlewareObjects
       IN IF arg.t # "array"
          THEN ret'.kind = "throw" /\ middlewares' = middlewares
          ELSE LET k == FirstInvalid(arg.elems)
               IN /\ middlewares' =
                       middlewares \o [i \in 1..(k - 1) |-> InSequenceForm(arg.elems[i])]
                  /\ ret'.kind = (IF k <= Len(arg.elems) THEN "throw" ELSE "return")]_vars

\* an array of a valid and then an invalid element was handed to a registry
\* that held an entry: the valid one was appended, the call threw
C9_Witness ==
  /\ call.op = "setMiddlewares"
  /\ call.middlewareObjects.t = "array"
  /\ Len(call.middlewareObjects.elems) = 2
  /\ ValidDescriptor(call.middlewareObjects.elems[1])
  /\ ~ValidDescriptor(call.middlewareObjects.elems[2])
  /\ ret.kind = "throw"
  /\ Len(middlewares) = 2
  /\ middlewares[2] = InSequenceForm(call.middlewareObjects.elems[1])
  /\ middlewares[1] # middlewares[2]

\* the lowercase spelling of the method names routes are written with
LowerCased(method) ==
  IF method \in {"get", "GET"} THEN "get"
  ELSE IF method \in {"post", "POST"} THEN "post"
  ELSE method

\* the entries the last buildRouter call put on the router
Registered == SubSeq(router, Len(call.router) + 1, Len(router))

\* C3: a middleware whose policy holds a method token is in the chain of
\* every route registered under that method: every chain buildRouter
\* registers on the router's get entry point holds the handler of every
\* registered middleware whose policy holds "get"
C3_GetChainsHoldGetMiddlewares ==
  call.op = "buildRouter" =>
    \A e \in DOMAIN Registered :
      Registered[e].method = "get" =>
        \A i \in DOMAIN middlewares :
          "get" \in PolicyTokens(middlewares[i]) =>
            \E p \in 2..Len(Registered[e].args) :
              /\ Registered[e].args[p].label = middlewares[i].name.v
              /\ Registered[e].args[p].middleware.generator = middlewares[i].generator.v

\* the route object is valid: it has a path and a method the router has an
\* entry point for
ValidRoute(routeObject) ==
  /\ HasPathAndMethod(routeObject)
  /\ LowerCased(routeObject["method"].v) \in {"get", "post"}

\* the entry a valid route is registered as: under its lowercased method,
\* with the elements of its chain as the arguments
EntryOf(routeObject) ==
  [method |-> LowerCased(routeObject["method"].v),
   args |-> buildMiddlewares(middlewares, routeObject).val]

\* C7: with every route object valid, buildRouter registers one entry per
\* route object, in input order, under the route's lowercased method and
\* with the route's chain as arguments, after the entries the router held,
\* and returns the router
C7_OneRegistrationPerRoute ==
  (/\ call.op = "buildRouter"
   /\ \A i \in DOMAIN call.routeObjects : ValidRoute(call.routeObjects[i]))
  => /\ ret.kind = "return"
     /\ ret.val = router
     /\ Len(router) = Len(call.router) + Len(call.routeObjects)
     /\ SubSeq(router, 1, Len(call.router)) = call.router
     /\ \A i \in DOMAIN call.routeObjects :
          /\ buildMiddlewares(middlewares, call.routeObjects[i]).kind = "return"
          /\ Registered[i] = EntryOf(call.routeObjects[i])

\* the two routes of test/index.js on a new router, with both middleware
\* objects registered: two entries
C7_Witness ==
  /\ call.op = "buildRouter"
  /\ call.router = <<>>
  /\ Len(call.routeObjects) = 2
  /\ ValidRoute(call.routeObjects[1])
  /\ ValidRoute(call.routeObjects[2])
  /\ call.routeObjects[1]["method"] = Str("get")
  /\ call.routeObjects[2]["method"] = Str("post")
  /\ Len(middlewares) = 2
  /\ middlewares[1].name # middlewares[2].name
  /\ ret.kind = "return"
  /\ Len(router) = 2
  /\ Len(router[1].args) = 3
  /\ Len(router[2].args) = 2

\* the route object fails: it lacks method or path, or its chain build fails
FailingRoute(routeObject) ==
  \/ ~HasPathAndMethod(routeObject)
  \/ buildMiddlewares(middlewares, routeObject).kind = "throw"

\* C8: when the route object at place n is the first that fails,
\* buildRouter throws, the routes before n are registered in input order
\* and no route from n on is
C8_RoutesBeforeTheFailureStay ==
  call.op = "buildRouter" =>
    \A n \in DOMAIN call.routeObjects :
      (/\ FailingRoute(call.routeObjects[n])
       /\ \A i \in 1..(n - 1) : ValidRoute(call.routeObjects[i]))
      => /\ ret.kind = "throw"
         /\ SubSeq(router, 1, Len(call.router)) = call.router
         /\ Len(Registered) = n - 1
         /\ \A i \in 1..(n - 1) : Registered[i] = EntryOf(call.routeObjects[i])

\* a valid route followed by one without path, handed with a router that
\* held an entry: the call threw with the first route registered
C8_Witness ==
  /\ call.op = "buildRouter"
  /\ Len(call.router) = 1
  /\ Len(call.routeObjects) = 2
  /\ ValidRoute(call.routeObjects[1])
  /\ "path" \notin DOMAIN call.routeObjects[2]
  /\ ret.kind = "throw"
  /\ Len(router) = 2
  /\ Len(middlewares) > 0

\* the places of the events of kind e
EventsOf(e) == {p \in DOMAIN trace : trace[p].e = e}

\* C10: the wrapper leaves the chain's behaviour alone.  Each call of a
\* wrapped middleware reports "started" and then calls the middleware once
\* with the same request and response; each time the middleware calls its
\* continuation with err, the wrapper reports err (truthy) or "complete"
\* and then calls the continuation it was given, once, with that err; that
\* continuation is called at no other time
C10_WrapperIsTransparent ==
  /\ \A k \in DOMAIN invocations :
       \E p \in EventsOf("debugLog") :
         /\ trace[p].k = k
         /\ trace[p].label = invocations[k].handler.label
         /\ trace[p].msg = Str("started")
         /\ p + 1 \in EventsOf("middleware")
         /\ trace[p + 1].fn = invocations[k].handler.middleware
         /\ trace[p + 1].k = k
         /\ trace[p + 1].req = invocations[k].req
         /\ trace[p + 1].res = invocations[k].res
         /\ \A q \in EventsOf("middleware") : trace[q].k = k => q = p + 1
  /\ Cardinality(EventsOf("middleware")) = Len(invocations)
  /\ \A p \in EventsOf("newNext") :
       /\ p + 2 <= Len(trace)
       /\ trace[p + 1].e = "debugLog"
       /\ trace[p + 1].label = invocations[trace[p].k].handler.label
       /\ trace[p + 1].msg =
            (IF trace[p].err \in {Undefined, Null, Str(""), Num("0")}
             THEN Str("complete") ELSE trace[p].err)
       /\ trace[p + 2].e = "next"
       /\ trace[p + 2].next = invocations[trace[p].k].next
       /\ trace[p + 2].err = trace[p].err
  /\ \A p \in EventsOf("next") : p > 2 /\ trace[p - 2].e = "newNext"

\* a middleware handed an error to its continuation and the continuation
\* given to the wrapper was called with it; another call never continued
C10_Witness ==
  /\ Len(invocations) = 2
  /\ \E p \in EventsOf("next") :
       trace[p].err = Str("boom") /\ trace[p].next = invocations[trace[p].k].next
  /\ \E k \in DOMAIN invocations : \A p \in EventsOf("newNext") : trace[p].k # k

=============================================================================
